---- MODULE Spec2Model ----
(***************************************************************************)
(* Model of the Bricks & Balls game engine (src/src/lib/gameEngine.ts) as  *)
(* driven by its host component (src/src/components/Game.tsx).             *)
(*                                                                         *)
(* Numbers.  The engine computes with JavaScript numbers.  The model uses  *)
(* fixed-point integers: every length and velocity is held in units of     *)
(* 1/Unit pixel.  Sums, differences, comparisons, min/max and halving of   *)
(* the values that occur are exact; the three places that leave the grid   *)
(* (Math.sqrt, the two divisions that normalise a velocity, and hitPos)    *)
(* round to the nearest unit, as a float rounds to the nearest double.     *)
(*                                                                         *)
(* State.  render() changes no state; only its failure on a canvas that    *)
(* gave no context is modelled.  lastTime and touchStartY, which are       *)
(* written and never read, are left out.  The                              *)
(* radius, the paddle's and the blocks' sizes never change and are         *)
(* definitions.                                                            *)
(*                                                                         *)
(* Frame callbacks.  A handle returned by requestAnimationFrame is stored   *)
(* in animationId at once and used only by cancelAnimationFrame, so the    *)
(* model names the pending callbacks 1..k in the order they were           *)
(* scheduled; animationId, when it names a pending callback, names k.      *)
(***************************************************************************)
EXTENDS Integers, Sequences, FiniteSets, TLC

(***************************************************************************)
(* Bounds of the model                                                     *)
(***************************************************************************)
\* The environment is explored in two regimes, chosen at construction:
\*   "any"  - every operation and input event may occur at any time, for
\*            MaxFrames frame updates after an initializeGame;
\*   "play" - a pointer-only game (PlayOps), for MaxPlayFrames frame updates.
MaxFrames == 3
MaxPlayFrames == 90
\* frame callbacks pending at the same time
MaxPending == 2
\* the highest level generateBlocks is applied to
MaxLevel == 12
\* how far outside a rectangle, in pixels, isColliding is probed
MaxProbe == 12

(***************************************************************************)
(* Arithmetic                                                              *)
(***************************************************************************)
Unit == 100

Px(n) == n * Unit

Abs(a) == IF a < 0 THEN -a ELSE a

Min(a, b) == IF a < b THEN a ELSE b

Max(a, b) == IF a > b THEN a ELSE b

\* a / b rounded to the nearest unit, b > 0
RDiv(a, b) == (2 * a + b) \div (2 * b)

RECURSIVE FloorSqrt(_, _, _)
\* the largest r in lo..hi with r * r <= n
FloorSqrt(n, lo, hi) ==
    IF lo >= hi THEN lo
    ELSE LET mid == (lo + hi + 1) \div 2
         IN  IF mid * mid <= n THEN FloorSqrt(n, mid, hi)
                               ELSE FloorSqrt(n, lo, mid - 1)

\* Math.sqrt, rounded to the nearest unit
Sqrt(n) ==
    LET r == FloorSqrt(n, 0, 8192)
    IN  IF n - r * r > r THEN r + 1 ELSE r

\* an optional number is << >> (undefined) or << n >>
Undefined == << >>

Some(n) == << n >>

ValueOf(opt) == opt[1]

(***************************************************************************)
(* Configuration and geometry (pixels)                                     *)
(***************************************************************************)
ballSpeed == 6
paddleSpeed == 10
maxLives == 3
ballRadius == 8
paddleWidth == 100
paddleHeight == 15
blockWidth == 80
blockHeight == 25
padding == 5
offsetTop == 60
offsetLeft == 35

\* the sizes the host gives the canvas: 4:3, from the window's inner size
CanvasSizes == { <<240, 180>>, <<320, 240>> }

KeyCodes == { "ArrowLeft", "ArrowRight", "KeyA", "KeyD", "Space", "Enter" }

EventNames == << "keydown", "keyup", "touchstart", "touchmove", "touchend",
                 "mousemove", "click" >>

Range(s) == { s[i] : i \in 1..Len(s) }

VARIABLES
    config,          \* GameConfig: canvasWidth, canvasHeight (units)
    gameState,       \* GameState
    controls,        \* Controls: leftPressed, rightPressed, touchX
    animationId,     \* handle of the last scheduled frame callback, 0 = unset
    pending,         \* handles of the frame callbacks the browser will run
    eventListeners,  \* the engine's list of tracked listeners
    registered,      \* listeners attached to document / canvas
    due,             \* callbacks of the current display frame still to run
    frames,          \* frame updates since the last initializeGame
    scenario,        \* the regime the environment is explored in
    lastOp,          \* the operation that produced this state
    ctx,             \* canvas.getContext('2d') gave a context (FALSE: null)
    error,           \* what the last operation threw, "none" if it returned
    snapshot,        \* the last result of getGameState() the host holds
    probe            \* a call of isColliding on its own: arguments, result

vars == << config, gameState, controls, animationId, pending, eventListeners,
           registered, due, frames, scenario, lastOp, ctx, error, snapshot,
           probe >>

(***************************************************************************)
(* updateConfig, initializeGame, generateBlocks                            *)
(***************************************************************************)
UpdateConfig(size) ==
    [ canvasWidth |-> Px(size[1]), canvasHeight |-> Px(size[2]) ]

\* mutant of GenerateBlocks: the number of rows is not capped at 8
GenerateBlocksUncapped(level, canvasWidth) ==
    LET rows == 3 + level \div 2
        cols == (canvasWidth - 2 * Px(offsetLeft)) \div Px(blockWidth + padding)
        n    == IF cols > 0 THEN rows * cols ELSE 0
    IN  [ i \in 1..n |->
            [ x |-> Px(offsetLeft) + ((i - 1) % cols) * Px(blockWidth + padding),
              y |-> Px(offsetTop) + ((i - 1) \div cols) * Px(blockHeight + padding),
              destroyed |-> FALSE,
              points |-> (rows - (i - 1) \div cols) * 10 ] ]

\* mutant of GenerateBlocks: cols leaves no margin on the right
GenerateBlocksWide(level, canvasWidth) ==
    LET rows == Min(3 + level \div 2, 8)
        cols == (canvasWidth - Px(offsetLeft)) \div Px(blockWidth + padding)
        n    == IF cols > 0 THEN rows * cols ELSE 0
    IN  [ i \in 1..n |->
            LET r == (i - 1) \div cols
                c == (i - 1) % cols
            IN  [ x |-> Px(offsetLeft) + c * Px(blockWidth + padding),
                  y |-> Px(offsetTop) + r * Px(blockHeight + padding),
                  destroyed |-> FALSE,
                  points |-> (rows - r) * 10 ] ]

GenerateBlocks(level, canvasWidth) ==
    LET rows == Min(3 + level \div 2, 8)
        cols == (canvasWidth - 2 * Px(offsetLeft)) \div Px(blockWidth + padding)
        n    == IF cols > 0 THEN rows * cols ELSE 0
    IN  [ i \in 1..n |->
            LET r == (i - 1) \div cols
                c == (i - 1) % cols
            IN  [ x |-> Px(offsetLeft) + c * Px(blockWidth + padding),
                  y |-> Px(offsetTop) + r * Px(blockHeight + padding),
                  destroyed |-> FALSE,
                  points |-> (rows - r) * 10 ] ]

InitializeGame(cfg) ==
    LET paddleX == (cfg.canvasWidth - Px(paddleWidth)) \div 2
        paddleY == cfg.canvasHeight - Px(paddleHeight) - Px(20)
    IN  [ isRunning |-> FALSE,
          isPaused  |-> FALSE,
          score     |-> 0,
          lives     |-> maxLives,
          level     |-> 1,
          ball      |-> [ x |-> cfg.canvasWidth \div 2,
                          y |-> paddleY - Px(ballRadius) - Px(5),
                          vx |-> Px(3), vy |-> -Px(3) ],
          paddle    |-> [ x |-> paddleX, y |-> paddleY ],
          blocks    |-> GenerateBlocks(1, cfg.canvasWidth) ]

(***************************************************************************)
(* The per-frame update                                                    *)
(***************************************************************************)
\* mutant of UpdatePaddle: the paddle is not clamped to the surface
UpdatePaddleNoClamp(gs, ctl, cfg) ==
    [ gs EXCEPT !.paddle.x =
        IF ctl.touchX # Undefined
        THEN ValueOf(ctl.touchX) - Px(paddleWidth) \div 2
        ELSE gs.paddle.x - (IF ctl.leftPressed THEN Px(paddleSpeed) ELSE 0)
                         + (IF ctl.rightPressed THEN Px(paddleSpeed) ELSE 0) ]

\* mutant of UpdatePaddle: else-if, left wins when both keys are held
UpdatePaddleLeftWins(gs, ctl, cfg) ==
    LET px == gs.paddle.x
        moved == IF ctl.touchX # Undefined
                 THEN ValueOf(ctl.touchX) - Px(paddleWidth) \div 2
                 ELSE IF ctl.leftPressed THEN px - Px(paddleSpeed)
                 ELSE IF ctl.rightPressed THEN px + Px(paddleSpeed)
                 ELSE px
    IN  [ gs EXCEPT !.paddle.x =
            Max(0, Min(cfg.canvasWidth - Px(paddleWidth), moved)) ]

UpdatePaddle(gs, ctl, cfg) ==
    LET px == gs.paddle.x
        moved == IF ctl.touchX # Undefined
                 THEN ValueOf(ctl.touchX) - Px(paddleWidth) \div 2
                 ELSE px - (IF ctl.leftPressed THEN Px(paddleSpeed) ELSE 0)
                         + (IF ctl.rightPressed THEN Px(paddleSpeed) ELSE 0)
    IN  [ gs EXCEPT !.paddle.x =
            Max(0, Min(cfg.canvasWidth - Px(paddleWidth), moved)) ]

GameOver(gs) == [ gs EXCEPT !.isRunning = FALSE ]

ResetBall(gs) ==
    [ gs EXCEPT !.ball = [ x |-> gs.paddle.x + Px(paddleWidth) \div 2,
                           y |-> gs.paddle.y - Px(ballRadius) - Px(5),
                           vx |-> Px(3), vy |-> -Px(3) ] ]

\* mutant of LoseLife: losing a life restores the blocks
LoseLifeRestoresBlocks(gs) ==
    LET g1 == [ gs EXCEPT !.lives = gs.lives - 1,
                          !.blocks = [ i \in 1..Len(gs.blocks) |->
                                         [ gs.blocks[i] EXCEPT !.destroyed = FALSE ] ] ]
    IN  IF g1.lives > 0 THEN ResetBall(g1) ELSE GameOver(g1)

LoseLife(gs) ==
    LET g1 == [ gs EXCEPT !.lives = gs.lives - 1 ]
    IN  IF g1.lives > 0 THEN ResetBall(g1) ELSE GameOver(g1)

\* the bottom-boundary test of updateBall
CrossesBottom(ball, cfg) == ball.y >= cfg.canvasHeight + Px(ballRadius)

\* mutant of MoveBall: the ceiling does not reflect the ball
MoveBallNoCeiling(ball, cfg) ==
    LET r  == Px(ballRadius)
        x1 == ball.x + ball.vx
        side == x1 <= r \/ x1 >= cfg.canvasWidth - r
    IN  [ x  |-> IF side THEN Max(r, Min(cfg.canvasWidth - r, x1)) ELSE x1,
          y  |-> ball.y + ball.vy,
          vx |-> IF side THEN -ball.vx ELSE ball.vx,
          vy |-> ball.vy ]

\* the ball after the move and the wall / ceiling reflections of updateBall
MoveBall(ball, cfg) ==
    LET r  == Px(ballRadius)
        x1 == ball.x + ball.vx
        y1 == ball.y + ball.vy
        side == x1 <= r \/ x1 >= cfg.canvasWidth - r
        top  == y1 <= r
    IN  [ x  |-> IF side THEN Max(r, Min(cfg.canvasWidth - r, x1)) ELSE x1,
          y  |-> IF top THEN r ELSE y1,
          vx |-> IF side THEN -ball.vx ELSE ball.vx,
          vy |-> IF top THEN -ball.vy ELSE ball.vy ]

UpdateBall(gs, cfg) ==
    LET g1 == [ gs EXCEPT !.ball = MoveBall(gs.ball, cfg) ]
    IN  IF CrossesBottom(g1.ball, cfg) THEN LoseLife(g1) ELSE g1

\* rect: x, y (top left), w, h
\* mutant of IsColliding: bounding boxes only, no corner-distance check
IsCollidingBox(ball, rect) ==
    LET distX == Abs(ball.x - rect.x - rect.w \div 2)
        distY == Abs(ball.y - rect.y - rect.h \div 2)
        r  == ball.radius
    IN  IF distX > rect.w \div 2 + r THEN FALSE
        ELSE IF distY > rect.h \div 2 + r THEN FALSE
        ELSE TRUE

\* ball: x, y, radius
IsColliding(ball, rect) ==
    LET distX == Abs(ball.x - rect.x - rect.w \div 2)
        distY == Abs(ball.y - rect.y - rect.h \div 2)
        r  == ball.radius
        dx == distX - rect.w \div 2
        dy == distY - rect.h \div 2
    IN  IF distX > rect.w \div 2 + r THEN FALSE
        ELSE IF distY > rect.h \div 2 + r THEN FALSE
        ELSE IF distX <= rect.w \div 2 THEN TRUE
        ELSE IF distY <= rect.h \div 2 THEN TRUE
        ELSE dx * dx + dy * dy <= r * r

\* the game's ball as isColliding sees it; its radius is always ballRadius
BallOf(gs) == [ x |-> gs.ball.x, y |-> gs.ball.y, radius |-> Px(ballRadius) ]

PaddleRect(gs) ==
    [ x |-> gs.paddle.x, y |-> gs.paddle.y,
      w |-> Px(paddleWidth), h |-> Px(paddleHeight) ]

BlockRect(b) == [ x |-> b.x, y |-> b.y, w |-> Px(blockWidth), h |-> Px(blockHeight) ]

HitsPaddle(gs) == IsColliding(BallOf(gs), PaddleRect(gs)) /\ gs.ball.vy > 0

\* mutant of PaddleBounce: the speed is not normalised to ballSpeed
PaddleBounceUnnormalised(gs) ==
    LET ball == gs.ball
        paddleCenter == gs.paddle.x + Px(paddleWidth) \div 2
        hitPos == Max(-Unit, Min(Unit,
                     RDiv((ball.x - paddleCenter) * Unit, Px(paddleWidth) \div 2)))
    IN  [ gs EXCEPT !.ball = [ x  |-> ball.x,
                               y  |-> gs.paddle.y - Px(ballRadius) - Px(2),
                               vx |-> hitPos * 5,
                               vy |-> -Abs(ball.vy) ] ]

\* the paddle branch of checkCollisions
PaddleBounce(gs) ==
    LET ball == gs.ball
        vy1 == -Abs(ball.vy)
        paddleCenter == gs.paddle.x + Px(paddleWidth) \div 2
        hitPos == Max(-Unit, Min(Unit,
                     RDiv((ball.x - paddleCenter) * Unit, Px(paddleWidth) \div 2)))
        vx1 == hitPos * 5
        speed == Sqrt(vx1 * vx1 + vy1 * vy1)
        targetSpeed == Px(ballSpeed)
    IN  [ gs EXCEPT !.ball = [ x  |-> ball.x,
                               y  |-> gs.paddle.y - Px(ballRadius) - Px(2),
                               vx |-> RDiv(vx1 * targetSpeed, speed),
                               vy |-> RDiv(vy1 * targetSpeed, speed) ] ]

\* indices of the undestroyed blocks the ball overlaps
Overlapping(gs) ==
    { i \in 1..Len(gs.blocks) :
        ~gs.blocks[i].destroyed /\ IsColliding(BallOf(gs), BlockRect(gs.blocks[i])) }

FirstIndex(S) == CHOOSE i \in S : \A j \in S : i <= j

\* mutant of BlockBounce: a block scores twice its points
BlockBounceDouble(gs, i) ==
    [ gs EXCEPT !.blocks[i].destroyed = TRUE,
                !.score = gs.score + 2 * gs.blocks[i].points,
                !.ball.vy = -gs.ball.vy ]

\* the body of the block loop of checkCollisions for block i
BlockBounce(gs, i) ==
    LET ball  == gs.ball
        block == gs.blocks[i]
        r == Px(ballRadius)
        ballPrevX == ball.x - ball.vx
        ballPrevY == ball.y - ball.vy
        blockLeft   == block.x
        blockRight  == block.x + Px(blockWidth)
        blockTop    == block.y
        blockBottom == block.y + Px(blockHeight)
        fromLeft   == ballPrevX < blockLeft
        fromRight  == ballPrevX > blockRight
        fromTop    == ballPrevY < blockTop
        fromBottom == ballPrevY > blockBottom
        newBall ==
            IF fromLeft \/ fromRight
            THEN [ ball EXCEPT !.vx = -ball.vx,
                               !.x = IF fromLeft THEN blockLeft - r
                                                 ELSE blockRight + r ]
            ELSE IF fromTop \/ fromBottom
            THEN [ ball EXCEPT !.vy = -ball.vy,
                               !.y = IF fromTop THEN blockTop - r
                                                ELSE blockBottom + r ]
            ELSE [ ball EXCEPT !.vx = -ball.vx, !.vy = -ball.vy ]
    IN  [ gs EXCEPT !.blocks[i].destroyed = TRUE,
                    !.score = gs.score + block.points,
                    !.ball = newBall ]

\* mutant of CheckCollisions: the block loop has no break
CheckCollisionsNoBreak(gs) ==
    LET g1 == IF HitsPaddle(gs) THEN PaddleBounce(gs) ELSE gs
        hit == Overlapping(g1)
        g2 == IF hit # {} THEN BlockBounce(g1, FirstIndex(hit)) ELSE g1
    IN  [ g2 EXCEPT
            !.blocks = [ i \in 1..Len(g1.blocks) |->
                           IF i \in hit
                           THEN [ g1.blocks[i] EXCEPT !.destroyed = TRUE ]
                           ELSE g1.blocks[i] ] ]

CheckCollisions(gs) ==
    LET g1 == IF HitsPaddle(gs) THEN PaddleBounce(gs) ELSE gs
        hit == Overlapping(g1)
    IN  IF hit # {} THEN BlockBounce(g1, FirstIndex(hit)) ELSE g1

CheckGameOver(gs) == IF gs.lives <= 0 THEN GameOver(gs) ELSE gs

\* mutant of NextLevel: the cleared grid is kept
NextLevelKeepsGrid(gs, cfg) ==
    ResetBall([ gs EXCEPT !.level = gs.level + 1 ])

\* mutant of NextLevel: a cleared level gives a life
NextLevelBonusLife(gs, cfg) ==
    LET g1 == ResetBall([ gs EXCEPT !.level = gs.level + 1,
                                    !.lives = gs.lives + 1,
                                    !.blocks = GenerateBlocks(gs.level + 1,
                                                              cfg.canvasWidth) ])
        speedIncrease == Unit \div 5
        currentSpeed == Sqrt(g1.ball.vx * g1.ball.vx + g1.ball.vy * g1.ball.vy)
        newSpeed == currentSpeed + speedIncrease
    IN  [ g1 EXCEPT !.ball.vx = RDiv(g1.ball.vx * newSpeed, currentSpeed),
                    !.ball.vy = RDiv(g1.ball.vy * newSpeed, currentSpeed) ]

NextLevel(gs, cfg) ==
    LET g1 == ResetBall([ gs EXCEPT !.level = gs.level + 1,
                                    !.blocks = GenerateBlocks(gs.level + 1,
                                                              cfg.canvasWidth) ])
        speedIncrease == Unit \div 5
        currentSpeed == Sqrt(g1.ball.vx * g1.ball.vx + g1.ball.vy * g1.ball.vy)
        newSpeed == currentSpeed + speedIncrease
    IN  [ g1 EXCEPT !.ball.vx = RDiv(g1.ball.vx * newSpeed, currentSpeed),
                    !.ball.vy = RDiv(g1.ball.vy * newSpeed, currentSpeed) ]

Remaining(gs) == { i \in 1..Len(gs.blocks) : ~gs.blocks[i].destroyed }

CheckLevelComplete(gs, cfg) ==
    IF Remaining(gs) = {} THEN NextLevel(gs, cfg) ELSE gs

\* mutant of Active: the guard of update() forgets the paused flag
ActiveIgnoresPause(gs) == gs.isRunning

\* update() passes its guard
Active(gs) == gs.isRunning /\ ~gs.isPaused

\* update() after its guard, up to its last step, checkLevelComplete
UpdateSteps(gs, ctl, cfg) ==
    CheckGameOver(CheckCollisions(UpdateBall(UpdatePaddle(gs, ctl, cfg), cfg)))

Update(gs, ctl, cfg) ==
    IF ~Active(gs) THEN gs
    ELSE CheckLevelComplete(UpdateSteps(gs, ctl, cfg), cfg)

(***************************************************************************)
(* getGameState() returns { ...this.gameState }: the flags and numbers are *)
(* copied, and ball, paddle and blocks are references to the objects the   *)
(* engine itself uses.  A snapshot holds the copies, the value each        *)
(* referenced object has now, and whether the object is still the engine's *)
(* (initializeGame makes new objects, nextLevel and updateCanvasSize a new *)
(* blocks array; every other write is made in place).                      *)
(***************************************************************************)
NoSnapshot == << >>

Spread(gs) ==
    [ isRunning |-> gs.isRunning,
      isPaused  |-> gs.isPaused,
      score     |-> gs.score,
      lives     |-> gs.lives,
      level     |-> gs.level,
      ball      |-> gs.ball,
      paddle    |-> gs.paddle,
      blocks    |-> gs.blocks,
      sharesObjects |-> TRUE,
      sharesBlocks  |-> TRUE ]

\* what the host reads in a snapshot
View(snap) ==
    [ f \in { "isRunning", "isPaused", "score", "lives", "level", "ball",
              "paddle", "blocks" } |-> snap[1][f] ]

\* the snapshot after the engine has gone to state gs: newObjects if it
\* replaced its state object, newBlocks if it replaced its blocks array,
\* which held oldBlocks when it was dropped
Tracked(snap, gs, oldBlocks, newObjects, newBlocks) ==
    IF snap = NoSnapshot THEN NoSnapshot
    ELSE LET s == snap[1]
         IN  << [ s EXCEPT
                    !.ball = IF s.sharesObjects /\ ~newObjects THEN gs.ball ELSE @,
                    !.paddle = IF s.sharesObjects /\ ~newObjects THEN gs.paddle
                               ELSE @,
                    !.blocks = IF ~s.sharesBlocks THEN @
                               ELSE IF newBlocks THEN oldBlocks ELSE gs.blocks,
                    !.sharesObjects = @ /\ ~newObjects,
                    !.sharesBlocks = @ /\ ~newBlocks ] >>

\* the snapshot after update() has run on gs
TrackedUpdate(snap, gs, ctl, cfg) ==
    IF ~Active(gs) THEN snap
    ELSE LET g1 == UpdateSteps(gs, ctl, cfg)
         IN  Tracked(snap, Update(gs, ctl, cfg), g1.blocks, FALSE,
                     Remaining(g1) = {})

\* render() begins with this.ctx.fillStyle = ...
RenderError == IF ctx THEN "none" ELSE "TypeError"

Scenarios == { "any", "play" }

PlayOps == { "start", "reset", "frame", "mousemove" }

PlaySizes == { <<240, 180>> }

\* pointer x coordinates (pixels, canvas space; a pointer may leave the canvas)
PlayPointerXs == { -30, 120 }

SizesOf(sc) == IF sc = "play" THEN PlaySizes ELSE CanvasSizes

AnyPointerXs == { 350 }

PointersOf(sc) == IF sc = "play" THEN PlayPointerXs ELSE AnyPointerXs

\* event handlers and host calls run between display frames
Allowed(op) == due = 0 /\ (scenario = "any" \/ op \in PlayOps)

FrameBudget == IF scenario = "any" THEN MaxFrames ELSE MaxPlayFrames

(***************************************************************************)
(* Construction                                                            *)
(***************************************************************************)
\* the constructor, on a canvas of the given size whose getContext('2d')
\* gives a context or null; it returns without an error in both cases
NoProbe == << >>

Constructed(sc, size, context) ==
    /\ scenario = sc
    /\ ctx = context
    /\ error = "none"
    /\ config = UpdateConfig(size)
    /\ gameState = InitializeGame(UpdateConfig(size))
    /\ controls = [ leftPressed |-> FALSE, rightPressed |-> FALSE,
                    touchX |-> Undefined ]
    /\ animationId = 0
    /\ pending = {}
    /\ eventListeners = EventNames
    /\ registered = Range(EventNames)
    /\ due = 0
    /\ frames = 0
    /\ snapshot = NoSnapshot
    /\ lastOp = "new"

Init ==
    /\ \E sc \in Scenarios : \E size \in SizesOf(sc) : Constructed(sc, size, TRUE)
    /\ probe = NoProbe

(***************************************************************************)
(* Lifecycle operations                                                    *)
(***************************************************************************)
\* mutant of StartBody: start() takes effect while the game is running too
StartBodyUnguarded(ctl) ==
    LET g1 == [ gameState EXCEPT !.isRunning = TRUE, !.isPaused = FALSE ]
        id == Cardinality(pending) + 1
    IN  /\ Cardinality(pending) < MaxPending
        /\ frames < FrameBudget
        /\ gameState' = Update(g1, ctl, config)
        /\ pending' = pending \cup { id }
        /\ animationId' = id
        /\ frames' = frames + 1
        /\ snapshot' = TrackedUpdate(snapshot, g1, ctl, config)
        /\ error' = "none"

\* mutant of StartBody: the first gameLoop call is left to the browser
StartBodyDeferred(ctl) ==
    IF ~gameState.isRunning
    THEN /\ Cardinality(pending) < MaxPending
         /\ frames < FrameBudget
         /\ gameState' = [ gameState EXCEPT !.isRunning = TRUE, !.isPaused = FALSE ]
         /\ pending' = pending \cup { Cardinality(pending) + 1 }
         /\ animationId' = Cardinality(pending) + 1
         /\ frames' = frames
         /\ snapshot' = snapshot
         /\ error' = "none"
    ELSE /\ UNCHANGED << gameState, pending, animationId, frames, snapshot >>
         /\ error' = "none"

\* start(): the first gameLoop call is synchronous and schedules the next;
\* without a context it ends in the TypeError of its render(), after
\* update() and before requestAnimationFrame
StartBody(ctl) ==
    IF ~gameState.isRunning
    THEN LET g1 == [ gameState EXCEPT !.isRunning = TRUE, !.isPaused = FALSE ]
             id == Cardinality(pending) + 1
         IN  /\ Cardinality(pending) < MaxPending
             /\ frames < FrameBudget
             /\ frames' = frames + 1
             /\ snapshot' = TrackedUpdate(snapshot, g1, ctl, config)
             /\ error' = RenderError
             /\ gameState' = Update(g1, ctl, config)
             /\ IF ctx
                THEN /\ pending' = pending \cup { id }
                     /\ animationId' = id
                ELSE UNCHANGED << pending, animationId >>
    ELSE /\ UNCHANGED << gameState, pending, animationId, frames, snapshot >>
         /\ error' = "none"

PauseBody == gameState' = [ gameState EXCEPT !.isPaused = TRUE ]

ResumeBody == gameState' = [ gameState EXCEPT !.isPaused = FALSE ]

\* cancelAnimationFrame(this.animationId) behind if (this.animationId)
CancelFrame == IF animationId # 0 THEN pending \ { animationId } ELSE pending

Start ==
    /\ StartBody(controls)
    /\ Allowed("start")
    /\ lastOp' = "start"
    /\ probe' = probe
    /\ UNCHANGED << config, controls, eventListeners, registered, scenario, due,
                    ctx >>

Pause ==
    /\ PauseBody
    /\ Allowed("pause")
    /\ lastOp' = "pause"
    /\ probe' = probe
    /\ error' = "none"
    /\ UNCHANGED << config, controls, animationId, pending, eventListeners,
                    registered, frames, scenario, due, ctx, snapshot >>

Resume ==
    /\ ResumeBody
    /\ Allowed("resume")
    /\ lastOp' = "resume"
    /\ probe' = probe
    /\ error' = "none"
    /\ UNCHANGED << config, controls, animationId, pending, eventListeners,
                    registered, frames, scenario, due, ctx, snapshot >>

\* mutant of Reset: the score survives the reset
ResetKeepsScore ==
    /\ pending' = CancelFrame
    /\ gameState' = [ InitializeGame(config) EXCEPT !.score = gameState.score ]
    /\ snapshot' = Tracked(snapshot, gameState', gameState.blocks, TRUE, TRUE)
    /\ error' = RenderError
    /\ frames' = 0
    /\ Allowed("reset")
    /\ lastOp' = "reset"
    /\ probe' = probe
    /\ UNCHANGED << config, controls, animationId, eventListeners, registered,
                    scenario, due, ctx >>

\* reset(); its render() throws without a context, after the state is new
Reset ==
    /\ pending' = CancelFrame
    /\ gameState' = InitializeGame(config)
    /\ snapshot' = Tracked(snapshot, gameState', gameState.blocks, TRUE, TRUE)
    /\ error' = RenderError
    /\ frames' = 0
    /\ Allowed("reset")
    /\ lastOp' = "reset"
    /\ probe' = probe
    /\ UNCHANGED << config, controls, animationId, eventListeners, registered,
                    scenario, due, ctx >>

\* mutant of UpdateCanvasSize: the grid of the old width is kept
UpdateCanvasSizeKeepsGrid(size) ==
    LET cfg == UpdateConfig(size)
        r == Px(ballRadius)
    IN  /\ config' = cfg
        /\ gameState' =
             [ gameState EXCEPT
                 !.paddle.x = Min(gameState.paddle.x,
                                  cfg.canvasWidth - Px(paddleWidth)),
                 !.ball.x = Max(r, Min(cfg.canvasWidth - r, gameState.ball.x)) ]
        /\ snapshot' = Tracked(snapshot, gameState', gameState.blocks, FALSE, FALSE)
        /\ error' = "none"
        /\ Allowed("resize")
        /\ lastOp' = "resize"
        /\ probe' = probe
        /\ UNCHANGED << controls, animationId, pending, eventListeners,
                        registered, frames, scenario, due, ctx >>

UpdateCanvasSize(size) ==
    LET cfg == UpdateConfig(size)
        r == Px(ballRadius)
    IN  /\ config' = cfg
        /\ gameState' =
             [ gameState EXCEPT
                 !.paddle.x = Min(gameState.paddle.x,
                                  cfg.canvasWidth - Px(paddleWidth)),
                 !.ball.x = Max(r, Min(cfg.canvasWidth - r, gameState.ball.x)),
                 !.blocks = GenerateBlocks(gameState.level, cfg.canvasWidth) ]
        /\ snapshot' = Tracked(snapshot, gameState', gameState.blocks, FALSE, TRUE)
        /\ error' = "none"
        /\ Allowed("resize")
        /\ lastOp' = "resize"
        /\ probe' = probe
        /\ UNCHANGED << controls, animationId, pending, eventListeners,
                        registered, frames, scenario, due, ctx >>

\* mutant of Destroy: the listeners on document are left attached
DestroyCanvasOnly ==
    /\ pending' = CancelFrame
    /\ registered' = registered \ (Range(eventListeners) \ { "keydown", "keyup" })
    /\ eventListeners' = << >>
    /\ error' = "none"
    /\ Allowed("destroy")
    /\ lastOp' = "destroy"
    /\ probe' = probe
    /\ UNCHANGED << config, gameState, controls, animationId, frames, scenario,
                    due, ctx, snapshot >>

Destroy ==
    /\ pending' = CancelFrame
    /\ registered' = registered \ Range(eventListeners)
    /\ eventListeners' = << >>
    /\ error' = "none"
    /\ Allowed("destroy")
    /\ lastOp' = "destroy"
    /\ probe' = probe
    /\ UNCHANGED << config, gameState, controls, animationId, frames, scenario,
                    due, ctx, snapshot >>

(***************************************************************************)
(* gameLoop as a frame callback.  On a display frame the browser runs the  *)
(* callbacks pending at its start one after the other, with no event       *)
(* handler in between (due counts those still to run); each one ends by    *)
(* scheduling itself again.  A callback is pending only if there is a      *)
(* context: without one start() throws before requestAnimationFrame.       *)
(***************************************************************************)
GameLoop ==
    LET n == IF due = 0 THEN Cardinality(pending) ELSE due
    IN  /\ pending # {}
        /\ ctx
        /\ Active(gameState) => frames < FrameBudget
        /\ gameState' = Update(gameState, controls, config)
        /\ snapshot' = TrackedUpdate(snapshot, gameState, controls, config)
        /\ error' = "none"
        /\ due' = n - 1
        /\ animationId' = Cardinality(pending) - due'
        /\ frames' = IF Active(gameState) THEN frames + 1 ELSE frames
        /\ lastOp' = "frame"
        /\ probe' = probe
        /\ UNCHANGED << config, controls, pending, eventListeners, registered,
                        scenario, ctx >>

(***************************************************************************)
(* Input handlers                                                          *)
(***************************************************************************)
IsLeft(code) == code \in { "ArrowLeft", "KeyA" }

IsRight(code) == code \in { "ArrowRight", "KeyD" }

\* mutant of KeyDown: Space pauses a running game and never resumes it
KeyDownNoResume(code) ==
    /\ "keydown" \in registered
    /\ controls' = [ controls EXCEPT
                       !.leftPressed = IF IsLeft(code) THEN TRUE ELSE @,
                       !.rightPressed = IF IsRight(code) THEN TRUE ELSE @ ]
    /\ IF code = "Space"
       THEN IF ~gameState.isRunning THEN StartBody(controls')
            ELSE /\ PauseBody
                 /\ error' = "none"
                 /\ UNCHANGED << pending, animationId, frames, snapshot >>
       ELSE /\ error' = "none"
            /\ UNCHANGED << gameState, pending, animationId, frames, snapshot >>
    /\ Allowed("keydown")
    /\ lastOp' = "keydown"
    /\ probe' = probe
    /\ UNCHANGED << config, eventListeners, registered, scenario, due, ctx >>

KeyDown(code) ==
    /\ "keydown" \in registered
    /\ controls' = [ controls EXCEPT
                       !.leftPressed = IF IsLeft(code) THEN TRUE ELSE @,
                       !.rightPressed = IF IsRight(code) THEN TRUE ELSE @ ]
    /\ IF code = "Space"
       THEN IF ~gameState.isRunning THEN StartBody(controls')
            ELSE /\ IF gameState.isPaused THEN ResumeBody ELSE PauseBody
                 /\ error' = "none"
                 /\ UNCHANGED << pending, animationId, frames, snapshot >>
       ELSE /\ error' = "none"
            /\ UNCHANGED << gameState, pending, animationId, frames, snapshot >>
    /\ Allowed("keydown")
    /\ lastOp' = "keydown"
    /\ probe' = probe
    /\ UNCHANGED << config, eventListeners, registered, scenario, due, ctx >>

\* mutant of KeyUp: any move key released clears both flags
KeyUpClearsBoth(code) ==
    /\ "keyup" \in registered
    /\ controls' = [ controls EXCEPT
                       !.leftPressed = IF IsLeft(code) \/ IsRight(code)
                                       THEN FALSE ELSE @,
                       !.rightPressed = IF IsLeft(code) \/ IsRight(code)
                                        THEN FALSE ELSE @ ]
    /\ error' = "none"
    /\ Allowed("keyup")
    /\ lastOp' = "keyup"
    /\ probe' = probe
    /\ UNCHANGED << config, gameState, animationId, pending, eventListeners,
                    registered, frames, scenario, due, ctx, snapshot >>

KeyUp(code) ==
    /\ "keyup" \in registered
    /\ controls' = [ controls EXCEPT
                       !.leftPressed = IF IsLeft(code) THEN FALSE ELSE @,
                       !.rightPressed = IF IsRight(code) THEN FALSE ELSE @ ]
    /\ error' = "none"
    /\ Allowed("keyup")
    /\ lastOp' = "keyup"
    /\ probe' = probe
    /\ UNCHANGED << config, gameState, animationId, pending, eventListeners,
                    registered, frames, scenario, due, ctx, snapshot >>

TouchStart(x) ==
    /\ "touchstart" \in registered
    /\ controls' = [ controls EXCEPT !.touchX = Some(Px(x)) ]
    /\ StartBody(controls')
    /\ Allowed("touchstart")
    /\ lastOp' = "touchstart"
    /\ probe' = probe
    /\ UNCHANGED << config, eventListeners, registered, scenario, due, ctx >>

TouchMove(x) ==
    /\ "touchmove" \in registered
    /\ controls' = [ controls EXCEPT !.touchX = Some(Px(x)) ]
    /\ error' = "none"
    /\ Allowed("touchmove")
    /\ lastOp' = "touchmove"
    /\ probe' = probe
    /\ UNCHANGED << config, gameState, animationId, pending, eventListeners,
                    registered, frames, scenario, due, ctx, snapshot >>

TouchEnd ==
    /\ "touchend" \in registered
    /\ controls' = [ controls EXCEPT !.touchX = Undefined ]
    /\ error' = "none"
    /\ Allowed("touchend")
    /\ lastOp' = "touchend"
    /\ probe' = probe
    /\ UNCHANGED << config, gameState, animationId, pending, eventListeners,
                    registered, frames, scenario, due, ctx, snapshot >>

\* mutant of MouseMove: the handler moves the paddle itself
MouseMoveMovesPaddle(x) ==
    /\ "mousemove" \in registered
    /\ controls' = [ controls EXCEPT !.touchX = Some(Px(x)) ]
    /\ gameState' = UpdatePaddle(gameState, controls', config)
    /\ error' = "none"
    /\ Allowed("mousemove")
    /\ lastOp' = "mousemove"
    /\ probe' = probe
    /\ UNCHANGED << config, animationId, pending, eventListeners,
                    registered, frames, scenario, due, ctx, snapshot >>

MouseMove(x) ==
    /\ "mousemove" \in registered
    /\ controls' = [ controls EXCEPT !.touchX = Some(Px(x)) ]
    /\ error' = "none"
    /\ Allowed("mousemove")
    /\ lastOp' = "mousemove"
    /\ probe' = probe
    /\ UNCHANGED << config, gameState, animationId, pending, eventListeners,
                    registered, frames, scenario, due, ctx, snapshot >>

Click ==
    /\ "click" \in registered
    /\ StartBody(controls)
    /\ Allowed("click")
    /\ lastOp' = "click"
    /\ probe' = probe
    /\ UNCHANGED << config, controls, eventListeners, registered, scenario, due,
                    ctx >>

Next ==
    \/ Start
    \/ Pause
    \/ Resume
    \/ Reset
    \/ \E size \in CanvasSizes : UpdateCanvasSize(size)
    \/ Destroy
    \/ GameLoop
    \/ \E code \in KeyCodes : KeyDown(code)
    \/ \E code \in KeyCodes : KeyUp(code)
    \/ \E x \in PointersOf(scenario) : TouchStart(x)
    \/ \E x \in PointersOf(scenario) : TouchMove(x)
    \/ TouchEnd
    \/ \E x \in PointersOf(scenario) : MouseMove(x)
    \/ Click

Spec == Init /\ [][Next]_vars

(***************************************************************************)
(* The host's reads: getGameState(), and what a caller can do with the     *)
(* object it returns                                                       *)
(***************************************************************************)
GetGameState ==
    /\ snapshot' = << Spread(gameState) >>
    /\ error' = "none"
    /\ Allowed("getGameState")
    /\ lastOp' = "getGameState"
    /\ probe' = probe
    /\ UNCHANGED << config, gameState, controls, animationId, pending,
                    eventListeners, registered, due, frames, scenario, ctx >>

\* the blocks container of a snapshot after a caller's write: the last
\* block's destroyed flag set, or the last block removed
SnapshotWrites == { "destroyed", "pop" }

Written(blocks, write) ==
    IF write = "pop" THEN SubSeq(blocks, 1, Len(blocks) - 1)
    ELSE [ blocks EXCEPT ![Len(blocks)].destroyed = TRUE ]

\* snapshot.blocks[n].destroyed = true, or snapshot.blocks.pop(): a write to
\* an array the engine shares is a write to the engine's state
SnapshotWrite(write) ==
    /\ snapshot # NoSnapshot
    /\ Len(snapshot[1].blocks) > 0
    /\ Written(snapshot[1].blocks, write) # snapshot[1].blocks
    /\ snapshot' = << [ snapshot[1] EXCEPT !.blocks = Written(@, write) ] >>
    /\ gameState' = IF snapshot[1].sharesBlocks
                    THEN [ gameState EXCEPT !.blocks = Written(@, write) ]
                    ELSE gameState
    /\ error' = "none"
    /\ Allowed("write")
    /\ lastOp' = "write"
    /\ probe' = probe
    /\ UNCHANGED << config, controls, animationId, pending, eventListeners,
                    registered, due, frames, scenario, ctx >>

InitSnapshot ==
    /\ \E size \in CanvasSizes : Constructed("any", size, TRUE)
    /\ probe = NoProbe

NextSnapshot ==
    \/ Start
    \/ Reset
    \/ \E size \in CanvasSizes : UpdateCanvasSize(size)
    \/ GameLoop
    \/ GetGameState
    \/ \E write \in SnapshotWrites : SnapshotWrite(write)

SpecSnapshot == InitSnapshot /\ [][NextSnapshot]_vars

(***************************************************************************)
(* An engine constructed on a canvas that gives no 2D context              *)
(***************************************************************************)
InitNoContext ==
    /\ \E size \in CanvasSizes : Constructed("any", size, FALSE)
    /\ probe = NoProbe

NextNoContext ==
    \/ Start
    \/ Pause
    \/ Resume
    \/ Reset
    \/ \E size \in CanvasSizes : UpdateCanvasSize(size)
    \/ Destroy
    \/ \E code \in KeyCodes : KeyDown(code)
    \/ \E code \in KeyCodes : KeyUp(code)
    \/ \E x \in AnyPointerXs : TouchStart(x)
    \/ \E x \in AnyPointerXs : TouchMove(x)
    \/ TouchEnd
    \/ \E x \in AnyPointerXs : MouseMove(x)
    \/ Click

SpecNoContext == InitNoContext /\ [][NextNoContext]_vars

(***************************************************************************)
(* generateBlocks over surface widths and levels: nextLevel applies it to  *)
(* the next level, updateCanvasSize to the current level and a new width   *)
(***************************************************************************)
BlockSizes == { <<160, 120>>, <<240, 180>>, <<335, 251>>, <<400, 300>>,
                <<600, 450>>, <<800, 600>> }

ApplyNextLevel ==
    /\ gameState.level < MaxLevel
    /\ gameState' = NextLevel(gameState, config)
    /\ error' = "none"
    /\ lastOp' = "nextLevel"
    /\ probe' = probe
    /\ UNCHANGED << config, controls, animationId, pending, eventListeners,
                    registered, due, frames, scenario, ctx, snapshot >>

InitBlocks ==
    /\ \E size \in BlockSizes : Constructed("any", size, TRUE)
    /\ probe = NoProbe

NextBlocks ==
    \/ ApplyNextLevel
    \/ \E size \in BlockSizes : UpdateCanvasSize(size)

SpecBlocks == InitBlocks /\ [][NextBlocks]_vars

(***************************************************************************)
(* isColliding on its own, over ball positions, radii and rectangles       *)
(***************************************************************************)
ProbeRadii == { Px(5), Px(ballRadius), Px(10) }

\* the paddle and the first block where the constructor puts them, and a
\* rectangle with whole half-extents
ProbeRects(gs) ==
    { PaddleRect(gs), BlockRect(gs.blocks[1]),
      [ x |-> Px(30), y |-> Px(40), w |-> Px(20), h |-> Px(10) ] }

\* ball centres on the pixel grid, up to MaxProbe pixels outside the rectangle
ProbeBalls(rect) ==
    { [ x |-> rect.x + Px(i), y |-> rect.y + Px(j), radius |-> r ] :
        i \in (0 - MaxProbe)..(rect.w \div Unit + MaxProbe),
        j \in (0 - MaxProbe)..(rect.h \div Unit + MaxProbe),
        r \in ProbeRadii }

IsCollidingCall ==
    /\ probe # NoProbe
    /\ ~probe[1].called
    /\ probe' = << [ probe[1] EXCEPT
                       !.called = TRUE,
                       !.result = IsColliding(probe[1].ball, probe[1].rect) ] >>
    /\ lastOp' = "isColliding"
    /\ UNCHANGED << config, gameState, controls, animationId, pending,
                    eventListeners, registered, due, frames, scenario, ctx,
                    error, snapshot >>

InitCollide ==
    /\ Constructed("any", << 240, 180 >>, TRUE)
    /\ \E rect \in ProbeRects(gameState) : \E ball \in ProbeBalls(rect) :
          probe = << [ ball |-> ball, rect |-> rect,
                       called |-> FALSE, result |-> FALSE ] >>

NextCollide == IsCollidingCall

SpecCollide == InitCollide /\ [][NextCollide]_vars

(***************************************************************************)
(* Properties                                                              *)
(***************************************************************************)
\* the ball's speed (units), as the engine computes it
Speed(ball) == Sqrt(ball.vx * ball.vx + ball.vy * ball.vy)

\* C1: in every reachable state lives is >= 0.
C1_LivesNonNegative == gameState.lives >= 0

\* C2: game over is terminal: at the end of every operation at which lives
\* is 0 (or below), running is false, so it stays false until reset gives
\* lives back.
C2_GameOverTerminal == gameState.lives <= 0 => ~gameState.isRunning

\* start has been called after a game over and has left the game stopped
C2_Witness ==
    lastOp = "start" /\ gameState.lives <= 0 /\ ~gameState.isRunning

\* C3: a frame callback that finds the game paused or not running leaves
\* the whole game state unchanged, whatever the control state is.
C3_IdleFrameNoOp ==
    [][ (lastOp' = "frame" /\ (~gameState.isRunning \/ gameState.isPaused))
            => gameState' = gameState ]_vars

\* a frame callback has run while the game was paused with a key held
C3_Witness ==
    /\ lastOp = "frame"
    /\ gameState.isRunning /\ gameState.isPaused
    /\ controls.leftPressed

\* C4: after reset or destroy no frame callback is pending, so none runs
\* until start is called again.
C4_ResetCancelsAll == lastOp \in { "reset", "destroy" } => pending = {}

\* C5: reset, called in any state, yields lives = 3, level = 1, score = 0,
\* running = false, paused = false and the level-1 grid of the current
\* surface width with no block destroyed.
C5_ResetState ==
    lastOp = "reset" =>
        /\ gameState.lives = 3
        /\ gameState.level = 1
        /\ gameState.score = 0
        /\ ~gameState.isRunning
        /\ ~gameState.isPaused
        /\ gameState.blocks = GenerateBlocks(1, config.canvasWidth)
        /\ Len(gameState.blocks) > 0
        /\ \A i \in 1..Len(gameState.blocks) : ~gameState.blocks[i].destroyed

\* reset has been called on a game that had been started
C5_Witness == lastOp = "reset" /\ animationId # 0 /\ frames = 0

\* C6: an update that leaves no undestroyed block triggers exactly one level
\* transition: no operation ends with a non-empty grid cleared, level
\* changes (outside reset) only by +1 and only when at most one block was
\* left, and the grid is then the non-empty grid of the new level with
\* every block undestroyed.
C6_LevelTransition ==
    [][ /\ Len(gameState'.blocks) > 0 => Remaining(gameState') # {}
        /\ (gameState'.level # gameState.level /\ lastOp' # "reset") =>
              /\ gameState'.level = gameState.level + 1
              /\ Cardinality(Remaining(gameState)) <= 1
              /\ gameState'.blocks =
                    GenerateBlocks(gameState.level + 1, config.canvasWidth)
              /\ Len(gameState'.blocks) > 0
              /\ Remaining(gameState') = 1..Len(gameState'.blocks) ]_vars

\* a frame has just cleared level 1 and entered level 2
C6_Witness ==
    /\ lastOp = "frame"
    /\ gameState.level = 2
    /\ gameState.score > 0
    /\ Remaining(gameState) = 1..Len(gameState.blocks)

\* C7: at every level transition the ball's speed after the transition is
\* the speed before it plus 0.2 (to within a hundredth of a pixel), and so
\* strictly greater.
C7_SpeedUp ==
    [][ (gameState'.level = gameState.level + 1) =>
            /\ Speed(gameState'.ball) > Speed(gameState.ball)
            /\ Abs(Speed(gameState'.ball)
                      - (Speed(gameState.ball) + Unit \div 5)) <= Unit \div 100
      ]_vars

\* C8: the paddle lies on the surface, x in [0, surfaceWidth - paddleWidth],
\* in every state and so after any frame update, whatever the control state.
C8_PaddleClamped ==
    /\ gameState.paddle.x >= 0
    /\ gameState.paddle.x <= config.canvasWidth - Px(paddleWidth)

\* a frame update has run with the pointer beyond the right edge
C8_Witness ==
    /\ lastOp = "frame"
    /\ Active(gameState)
    /\ controls.touchX # Undefined
    /\ ValueOf(controls.touchX) > config.canvasWidth
    /\ gameState.paddle.x = config.canvasWidth - Px(paddleWidth)

\* C9: the ball stays on the surface horizontally and never rises above
\* its top: 0 <= x <= surfaceWidth and y >= 0, in every state and so after
\* every frame update.
C9_BallInBounds ==
    /\ gameState.ball.x >= 0
    /\ gameState.ball.x <= config.canvasWidth
    /\ gameState.ball.y >= 0

\* a frame update has just reflected the ball at the ceiling
C9_Witness ==
    /\ lastOp = "frame"
    /\ gameState.ball.y = Px(ballRadius)
    /\ gameState.ball.vy > 0

\* C10: an update in which a life is lost leaves score unchanged.
C10_LossKeepsScore ==
    [][ gameState'.lives < gameState.lives
            => gameState'.score = gameState.score ]_vars

\* C11: a snapshot does not alias the engine's block collection: a caller's
\* write to the blocks container of a snapshot, or to a block in it, leaves
\* the engine's game state unchanged.
C11_SnapshotNoAlias == [][ lastOp' = "write" => gameState' = gameState ]_vars

\* C12: a snapshot is an immutable copy: what the host reads in a snapshot
\* it holds (score, lives, level, flags, ball, paddle, blocks) is not
\* changed by a later frame update of the engine.
C12_SnapshotImmutable ==
    [][ (lastOp' = "frame" /\ snapshot # NoSnapshot)
            => View(snapshot') = View(snapshot) ]_vars

\* C13: construction fails when the canvas gives no 2D context: the
\* constructor reports an error and leaves no listener registered.
C13_ConstructionFails ==
    (lastOp = "new" /\ ~ctx) => (error # "none" /\ registered = {})

\* C14: start takes effect only while not running: start called on a
\* running game, paused or not, leaves the game state unchanged and begins
\* no second frame loop.
C14_StartOnlyWhenStopped ==
    [][ (lastOp' = "start" /\ gameState.isRunning) =>
            /\ gameState' = gameState
            /\ pending' = pending
            /\ animationId' = animationId ]_vars

\* start has been called on a running, paused game with its loop pending
C14_Witness ==
    /\ lastOp = "start"
    /\ gameState.isRunning /\ gameState.isPaused
    /\ pending # {}

InputOps == Range(EventNames)

\* C15: destroy unregisters every handler registered at construction, each
\* once, and leaves none registered; destroy called again is a no-op; after
\* destroy no input event changes the control state or the game state.
C15_DestroyUnregisters ==
    [][ /\ lastOp' = "destroy" =>
              /\ registered' = {}
              /\ eventListeners' = << >>
              /\ Range(eventListeners) = registered
              /\ Cardinality(Range(eventListeners)) = Len(eventListeners)
              /\ eventListeners = << >> =>
                    UNCHANGED << config, gameState, controls, registered,
                                 eventListeners >>
              /\ lastOp = "destroy" => pending' = pending
        /\ (eventListeners = << >> /\ lastOp' \in InputOps) =>
              (controls' = controls /\ gameState' = gameState) ]_vars

\* destroy has been called on a running game with a key held down
C15_Witness ==
    /\ lastOp = "destroy"
    /\ registered = {}
    /\ gameState.isRunning
    /\ controls.leftPressed

\* C16: when a life is lost and lives remain, lives goes down by exactly 1
\* in that update and the update ends with the ball at (paddle centre x,
\* paddle y - radius - 5) for the paddle's position then, velocity (3,-3).
C16_LifeLostResetsBall ==
    [][ (gameState'.lives < gameState.lives /\ gameState'.lives > 0) =>
            /\ gameState'.lives = gameState.lives - 1
            /\ gameState'.ball =
                  [ x  |-> gameState'.paddle.x + Px(paddleWidth) \div 2,
                    y  |-> gameState'.paddle.y - Px(ballRadius) - Px(5),
                    vx |-> Px(3),
                    vy |-> -Px(3) ] ]_vars

\* C17: score only increases: no operation other than reset lowers it, and
\* it changes only by the points of a block destroyed in that update.
C17_ScoreOnlyIncreases ==
    [][ lastOp' # "reset" =>
            /\ gameState'.score >= gameState.score
            /\ gameState'.score # gameState.score =>
                  \E i \in Remaining(gameState) :
                      /\ gameState'.score =
                            gameState.score + gameState.blocks[i].points
                      /\ IF gameState'.level = gameState.level
                         THEN gameState'.blocks =
                                [ gameState.blocks EXCEPT ![i].destroyed = TRUE ]
                         ELSE Remaining(gameState) = { i } ]_vars

\* a frame has destroyed the first block of a level-1 grid and scored it
C17_Witness ==
    /\ lastOp = "frame"
    /\ gameState.level = 1
    /\ Cardinality(Remaining(gameState)) = Len(gameState.blocks) - 1
    /\ \E i \in 1..Len(gameState.blocks) :
          gameState.blocks[i].destroyed /\ gameState.score = gameState.blocks[i].points

\* the update of this step resolves a paddle collision
PaddleHit ==
    /\ Active(gameState)
    /\ HitsPaddle(UpdateBall(UpdatePaddle(gameState, controls, config), config))

C19_GenerateBlocks ==
    LET W == config.canvasWidth \div Unit
        blocks == gameState.blocks
        rows == Min(3 + gameState.level \div 2, 8)
        cols == (W - 70) \div 85
    IN  /\ Len(blocks) = rows * cols
        /\ \A i \in 1..Len(blocks) :
              LET r == (blocks[i].y \div Unit - 60) \div 30
              IN  /\ r \in 0..(rows - 1)
                  /\ blocks[i].points = (rows - r) * 10
                  /\ ~blocks[i].destroyed
        /\ \A r \in 0..(rows - 1) :
              Cardinality({ i \in 1..Len(blocks) :
                              blocks[i].y = Px(60 + 30 * r) }) = cols
        /\ (W = 800 /\ gameState.level = 1) =>
              /\ Len(blocks) = 24
              /\ blocks[1].points = 30 /\ blocks[1].y = Px(60)
              /\ blocks[24].points = 10 /\ blocks[24].y = Px(120)

\* the grid of level 12 has been generated for a surface 800 wide
C19_Witness ==
    /\ lastOp = "nextLevel"
    /\ config.canvasWidth = Px(800)
    /\ gameState.level = 12
    /\ Len(gameState.blocks) = 64

\* C20: updateCanvasSize reclamps paddle and ball into the new bounds: when
\* it returns, paddle x is in [0, width - paddleWidth], ball x is in
\* [radius, width - radius], and paddle and ball lie within the new height.
C20_ResizeReclamps ==
    lastOp = "resize" =>
        /\ gameState.paddle.x >= 0
        /\ gameState.paddle.x <= config.canvasWidth - Px(paddleWidth)
        /\ gameState.ball.x >= Px(ballRadius)
        /\ gameState.ball.x <= config.canvasWidth - Px(ballRadius)
        /\ gameState.paddle.y >= 0
        /\ gameState.paddle.y + Px(paddleHeight) <= config.canvasHeight
        /\ gameState.ball.y >= 0
        /\ gameState.ball.y <= config.canvasHeight

\* the game state start() leaves when it takes effect with controls ctl
Started(ctl) ==
    Update([ gameState EXCEPT !.isRunning = TRUE, !.isPaused = FALSE ],
           ctl, config)

\* C21: the toggle key acts on the lifecycle state: Space starts a game
\* that is not running (a frame loop begins), pauses one that is running
\* and not paused, resumes one that is running and paused; nothing else
\* results from it.
C21_ToggleKey ==
    [][ (lastOp' = "keydown" /\ KeyDown("Space")) =>
            IF ~gameState.isRunning
            THEN /\ gameState' = Started(controls')
                 /\ Cardinality(pending') = Cardinality(pending) + 1
                 /\ controls' = controls
            ELSE /\ gameState' =
                       [ gameState EXCEPT !.isPaused = ~gameState.isPaused ]
                 /\ pending' = pending
                 /\ controls' = controls ]_vars

\* a key other than a move key has been pressed on a running game, which
\* is now paused
C21_Witness ==
    /\ lastOp = "keydown"
    /\ gameState.isRunning /\ gameState.isPaused
    /\ ~controls.leftPressed /\ ~controls.rightPressed
    /\ frames = 1

\* C22: a tap on the canvas (touch start or click) while the game is paused
\* resumes it.
C22_TapResumes ==
    [][ (lastOp' \in { "touchstart", "click" }
            /\ gameState.isRunning /\ gameState.isPaused)
            => ~gameState'.isPaused ]_vars

\* C23: input handlers change only the control-state record: no handler
\* changes the game state, which is left to the frame update.
C23_InputOnlyControls ==
    [][ lastOp' \in InputOps => gameState' = gameState ]_vars

\* C23 as amended: key up, touch move, touch end and mouse move change only
\* the control-state record; key down, touch start and click change, besides
\* it, only the lifecycle: they start a game that is not running (start()
\* runs the first frame update at once) and key down toggles the paused
\* flag of a running one; no handler changes the configuration.
C23_InputLifecycleOnly ==
    [][ lastOp' \in InputOps =>
            /\ config' = config
            /\ \/ gameState' = gameState
               \/ /\ lastOp' \in { "keydown", "touchstart", "click" }
                  /\ ~gameState.isRunning
                  /\ gameState' = Started(controls')
               \/ /\ lastOp' = "keydown"
                  /\ gameState.isRunning
                  /\ gameState' =
                        [ gameState EXCEPT !.isPaused = ~gameState.isPaused ]
            /\ lastOp' \in { "keyup", "touchmove", "touchend", "mousemove" }
                  => (gameState' = gameState /\ pending' = pending) ]_vars

\* the pointer has moved over a running game between two frames
C23_Witness ==
    /\ lastOp = "mousemove"
    /\ Active(gameState)
    /\ controls.touchX # Undefined
    /\ gameState.paddle.x + Px(paddleWidth) \div 2 # ValueOf(controls.touchX)
    /\ frames > 1

\* the game state when the block loop of checkCollisions begins in the
\* update of this step
AtBlockLoop ==
    LET g1 == UpdateBall(UpdatePaddle(gameState, controls, config), config)
    IN  IF HitsPaddle(g1) THEN PaddleBounce(g1) ELSE g1

\* C24: at most one block is destroyed per frame: the first undestroyed
\* block in stored order that overlaps the ball is destroyed and its points
\* are added to score; every other block overlapping the ball stays
\* undestroyed.
C24_OneBlockPerFrame ==
    [][ (lastOp' = "frame" /\ Active(gameState)) =>
            LET hit == Overlapping(AtBlockLoop)
                gone == Remaining(gameState) \ Remaining(gameState')
            IN  IF hit = {}
                THEN gameState'.blocks = gameState.blocks
                     /\ gameState'.score = gameState.score
                ELSE /\ gameState'.score =
                          gameState.score + gameState.blocks[FirstIndex(hit)].points
                     /\ gameState'.level = gameState.level =>
                          /\ gone = { FirstIndex(hit) }
                          /\ \A j \in hit \ { FirstIndex(hit) } :
                                ~gameState'.blocks[j].destroyed
                     /\ gameState'.level # gameState.level =>
                          Remaining(gameState) = { FirstIndex(hit) } ]_vars

\* a frame of a game at level 1 with no life lost has destroyed a block
\* and has left the ball overlapping an undestroyed one
C24_Witness ==
    /\ lastOp = "frame"
    /\ Active(gameState)
    /\ gameState.level = 1 /\ gameState.lives = 3
    /\ Cardinality(Remaining(gameState)) < Len(gameState.blocks)
    /\ Overlapping(gameState) # {}

\* C26: in the block loop, for the ball's pre-move position (position
\* minus velocity): outside the block on the x axis only, the horizontal
\* velocity is flipped and x snapped to that edge; outside on the y axis
\* only, the vertical velocity is flipped and y snapped; outside on both
\* axes (corner), both components are flipped and the position is kept.
C26_BlockBounceSides ==
    [][ (lastOp' = "frame" /\ Active(gameState)
            /\ Overlapping(AtBlockLoop) # {}
            /\ gameState'.level = gameState.level) =>
            LET ball  == AtBlockLoop.ball
                block == AtBlockLoop.blocks[FirstIndex(Overlapping(AtBlockLoop))]
                r     == Px(ballRadius)
                prevX == ball.x - ball.vx
                prevY == ball.y - ball.vy
                right  == block.x + Px(blockWidth)
                bottom == block.y + Px(blockHeight)
                outX == prevX < block.x \/ prevX > right
                outY == prevY < block.y \/ prevY > bottom
            IN  /\ (outX /\ ~outY) =>
                      gameState'.ball =
                        [ ball EXCEPT !.vx = -ball.vx,
                                      !.x = IF prevX < block.x THEN block.x - r
                                                               ELSE right + r ]
                /\ (outY /\ ~outX) =>
                      gameState'.ball =
                        [ ball EXCEPT !.vy = -ball.vy,
                                      !.y = IF prevY < block.y THEN block.y - r
                                                               ELSE bottom + r ]
                /\ (outX /\ outY) =>
                      gameState'.ball =
                        [ ball EXCEPT !.vx = -ball.vx, !.vy = -ball.vy ] ]_vars

\* where updatePaddle puts the paddle for the controls and the paddle of
\* this state: the pointer if there is one, else the keys; then the clamp
PaddleTarget ==
    LET hi == config.canvasWidth - Px(paddleWidth)
        to == IF controls.touchX # Undefined
              THEN ValueOf(controls.touchX) - Px(paddleWidth) \div 2
              ELSE IF controls.leftPressed /\ ~controls.rightPressed
              THEN gameState.paddle.x - Px(paddleSpeed)
              ELSE IF controls.rightPressed /\ ~controls.leftPressed
              THEN gameState.paddle.x + Px(paddleSpeed)
              ELSE gameState.paddle.x
    IN  IF to < 0 THEN 0 ELSE IF to > hi THEN hi ELSE to

\* C27: in a frame update of a running, unpaused game the paddle centre
\* snaps to the pointer coordinate if there is one, the key flags being
\* ignored; if there is none the paddle moves by -speed for left, +speed
\* for right, 0 for both; the result is clamped to the surface.
C27_PaddleUpdate ==
    [][ (lastOp' = "frame" /\ Active(gameState)) =>
            /\ gameState'.paddle.x = PaddleTarget
            /\ gameState'.paddle.y = gameState.paddle.y ]_vars

\* a frame has run with both move keys held and no pointer: the paddle is
\* where the constructor put it
C27_Witness ==
    /\ lastOp = "frame"
    /\ Active(gameState)
    /\ controls.leftPressed /\ controls.rightPressed
    /\ controls.touchX = Undefined
    /\ gameState.paddle.x = (config.canvasWidth - Px(paddleWidth)) \div 2
    /\ frames > 1

\* every handler overwrites the fields of the control state it sets,
\* whatever they held, and sets no other
Overwrites ==
    /\ lastOp' \in { "mousemove", "touchmove", "touchstart" } =>
          \E x \in PointersOf(scenario) :
              controls' = [ controls EXCEPT !.touchX = Some(Px(x)) ]
    /\ lastOp' = "touchend" =>
          controls' = [ controls EXCEPT !.touchX = Undefined ]
    /\ lastOp' = "click" => controls' = controls
    /\ lastOp' = "keydown" =>
          \E code \in KeyCodes :
              controls' =
                [ controls EXCEPT
                    !.leftPressed = @ \/ code \in { "ArrowLeft", "KeyA" },
                    !.rightPressed = @ \/ code \in { "ArrowRight", "KeyD" } ]
    /\ lastOp' = "keyup" =>
          \E code \in KeyCodes :
              controls' =
                [ controls EXCEPT
                    !.leftPressed = @ /\ code \notin { "ArrowLeft", "KeyA" },
                    !.rightPressed = @ /\ code \notin { "ArrowRight", "KeyD" } ]

\* C28 as stated: input is last-write-wins: every event overwrites the
\* control state, is not queued and has no effect on the game state, and
\* the next frame update moves the paddle by the control state it finds.
C28_InputNotQueued ==
    [][ /\ Overwrites
        /\ lastOp' \in InputOps => gameState' = gameState
        /\ (lastOp' = "frame" /\ Active(gameState)) =>
              gameState'.paddle.x = PaddleTarget ]_vars

\* C28, amended: input is last-write-wins: every event overwrites the
\* control state and is not queued; it has no effect on the game state
\* unless it is the toggle key, or a touch start or click on a game that
\* is not running, which act on the lifecycle at once; the next frame
\* update moves the paddle by the control state it finds.
C28_LastWriteWins ==
    [][ /\ Overwrites
        /\ (lastOp' \in InputOps /\ gameState' # gameState) =>
              \/ lastOp' = "keydown" /\ KeyDown("Space")
              \/ ~gameState.isRunning /\ lastOp' \in { "touchstart", "click" }
        /\ (lastOp' = "frame" /\ Active(gameState)) =>
              gameState'.paddle.x = PaddleTarget ]_vars

\* the pointer took the paddle to the right edge, was lifted, and a frame
\* has then moved the paddle by the left key
C28_Witness ==
    /\ lastOp = "frame"
    /\ Active(gameState)
    /\ controls.touchX = Undefined
    /\ controls.leftPressed /\ ~controls.rightPressed
    /\ gameState.paddle.x = config.canvasWidth - Px(paddleWidth) - Px(paddleSpeed)

\* C29: updateCanvasSize leaves score, lives, level, running and paused
\* unchanged and replaces the grid with generateBlocks(level) for the new
\* width.
C29_ResizeKeepsProgress ==
    [][ lastOp' = "resize" =>
            /\ gameState'.score = gameState.score
            /\ gameState'.lives = gameState.lives
            /\ gameState'.level = gameState.level
            /\ gameState'.isRunning = gameState.isRunning
            /\ gameState'.isPaused = gameState.isPaused
            /\ gameState'.blocks =
                  GenerateBlocks(gameState.level, config'.canvasWidth)
            /\ Remaining(gameState') = 1..Len(gameState'.blocks) ]_vars

\* the surface of a paused game that had scored has been resized
C29_Witness ==
    /\ lastOp = "resize"
    /\ gameState.score > 0
    /\ gameState.isRunning /\ gameState.isPaused
    /\ Remaining(gameState) = 1..Len(gameState.blocks)

\* C30: at most one frame-loop chain is active: at most one frame callback
\* is pending at any time.
C30_OneLoop == Cardinality(pending) <= 1

\* the square of the distance from the probe's ball centre to the closest
\* point of the probe's rectangle
ClosestDistanceSq ==
    LET ball == probe[1].ball
        rect == probe[1].rect
        cx == IF ball.x < rect.x THEN rect.x
              ELSE IF ball.x > rect.x + rect.w THEN rect.x + rect.w ELSE ball.x
        cy == IF ball.y < rect.y THEN rect.y
              ELSE IF ball.y > rect.y + rect.h THEN rect.y + rect.h ELSE ball.y
    IN  (ball.x - cx) * (ball.x - cx) + (ball.y - cy) * (ball.y - cy)

\* C25: isColliding(ball, rect) is true exactly when the distance from the
\* ball centre to the closest point of the rectangle is at most the radius.
C25_CircleRectOverlap ==
    (probe # NoProbe /\ probe[1].called) =>
        (probe[1].result <=>
            ClosestDistanceSq <= probe[1].ball.radius * probe[1].ball.radius)

\* isColliding has answered for a ball off a corner of the rectangle at
\* exactly one radius from it: 6 and 8 pixels out, radius 10
C25_Witness ==
    /\ probe # NoProbe
    /\ probe[1].called
    /\ probe[1].result
    /\ probe[1].ball.radius = Px(10)
    /\ probe[1].ball.x = probe[1].rect.x - Px(6)
    /\ probe[1].ball.y = probe[1].rect.y - Px(8)

\* C31: paused while not running is unreachable: in every reachable state
\* paused implies running.
C31_PausedImpliesRunning == gameState.isPaused => gameState.isRunning

\* C32 as stated: between a level transition or reset and the next one, no
\* destroyed block becomes undestroyed and the number of undestroyed
\* blocks does not increase, under any frame update, start, pause, resume
\* or resize.
C32_DestroyedStays ==
    [][ (lastOp' \in { "frame", "start", "pause", "resume", "resize" }
            /\ gameState'.level = gameState.level) =>
            /\ Cardinality(Remaining(gameState')) <= Cardinality(Remaining(gameState))
            /\ Len(gameState'.blocks) = Len(gameState.blocks)
            /\ \A i \in 1..Len(gameState.blocks) :
                  gameState.blocks[i].destroyed => gameState'.blocks[i].destroyed ]_vars

\* C32, amended: the same under any frame update, start, pause and resume;
\* a resize replaces the grid with a new one, none of it destroyed.
C32_DestroyedStaysNoResize ==
    [][ /\ (lastOp' \in { "frame", "start", "pause", "resume" }
               /\ gameState'.level = gameState.level) =>
              /\ Cardinality(Remaining(gameState')) <= Cardinality(Remaining(gameState))
              /\ Len(gameState'.blocks) = Len(gameState.blocks)
              /\ \A i \in 1..Len(gameState.blocks) :
                    gameState.blocks[i].destroyed => gameState'.blocks[i].destroyed
        /\ lastOp' = "resize" =>
              Remaining(gameState') = 1..Len(gameState'.blocks) ]_vars

\* a frame has lost a life on level 1 after blocks were destroyed, and they
\* are still destroyed
C32_Witness ==
    /\ lastOp = "frame"
    /\ gameState.level = 1
    /\ gameState.lives = maxLives - 1
    /\ gameState.ball.vx = Px(3) /\ gameState.ball.vy = -Px(3)
    /\ Cardinality(Remaining(gameState)) < Len(gameState.blocks)

\* C33: between resets lives never increases and is at most 3, level is at
\* least 1 and never decreases, and one frame (one operation) changes
\* lives by at most -1 and level by at most +1.
C33_LivesLevelMonotone ==
    /\ gameState.lives <= maxLives
    /\ gameState.level >= 1
    /\ [][ /\ gameState'.lives <= maxLives
            /\ gameState'.level >= 1
            /\ lastOp' # "reset" =>
                  /\ gameState'.lives <= gameState.lives
                  /\ gameState'.lives >= gameState.lives - 1
                  /\ gameState'.level >= gameState.level
                  /\ gameState'.level <= gameState.level + 1 ]_vars

\* a frame has run on level 2 of a game that has lost a life
C33_Witness ==
    /\ lastOp = "frame"
    /\ gameState.level = 2
    /\ gameState.lives < maxLives

\* C34: every generated grid is dense and fits the surface horizontally:
\* its blocks are pairwise non-overlapping, every row has the same cols
\* blocks, 85 apart from x = 35, every block's right edge is at most
\* surface width - 35, and the grid is the same whenever it is generated
\* for the same level and width.
C34_DenseGrid ==
    /\ [](LET blocks == gameState.blocks
              W == config.canvasWidth \div Unit
              cols == (W - 70) \div 85
              ys == { blocks[i].y : i \in 1..Len(blocks) }
          IN  /\ \A i, j \in 1..Len(blocks) :
                    i # j =>
                      \/ blocks[i].x + Px(80) <= blocks[j].x
                      \/ blocks[j].x + Px(80) <= blocks[i].x
                      \/ blocks[i].y + Px(25) <= blocks[j].y
                      \/ blocks[j].y + Px(25) <= blocks[i].y
              /\ \A y \in ys :
                    { blocks[i].x : i \in { k \in 1..Len(blocks) : blocks[k].y = y } }
                        = { Px(35 + 85 * c) : c \in 0..(cols - 1) }
              /\ Len(blocks) = Cardinality(ys) * cols
              /\ \A i \in 1..Len(blocks) :
                    blocks[i].x + Px(80) <= config.canvasWidth - Px(35))
    /\ [][ (gameState'.level = gameState.level
               /\ config'.canvasWidth = config.canvasWidth) =>
               gameState'.blocks = gameState.blocks ]_vars

\* the grid of level 3 has been generated again for a surface 400 wide:
\* four rows of three blocks, the last one ending at 285
C34_Witness ==
    /\ lastOp = "resize"
    /\ config.canvasWidth = Px(400)
    /\ gameState.level = 3
    /\ Len(gameState.blocks) = 12
    /\ gameState.blocks[12].x + Px(80) = Px(285)

====
